---- MODULE Spec2Model ----
(***************************************************************************)
(* Model of lib/index.js (watch): the watcher handlers, the module-cache   *)
(* invalidation of hotReload / fullReload, and the reload cycle of         *)
(* reloadEntry / start.                                                    *)
(*                                                                         *)
(* JavaScript runs each handler to its next suspension: the awaits of a    *)
(* promise returned by a hook, `await result` (line 226) and               *)
(* `await entryResult` (line 176), and `await start()` (line 230), which   *)
(* suspends reloadEntry even when start() had nothing to wait for.  The    *)
(* continuation runs from the microtask queue; the watcher can emit        *)
(* further events synchronously before it does.                            *)
(*                                                                         *)
(* Module loading is Node's CommonJS loader: require() returns the cached  *)
(* module, otherwise creates a module whose parent is the requiring        *)
(* module, caches it, runs it, and deletes the cache key again when the    *)
(* module throws.  What a cache key set to null means to the loader, and   *)
(* what a rejected promise nobody handles does to the process, depend on   *)
(* the Node release the program runs on.                                   *)
(***************************************************************************)
EXTENDS Integers, Sequences, FiniteSets, TLC

\* ------------------------------------------------------------------ bounds
MaxEvents == 2      \* watcher events delivered in one behaviour
MaxAwaiting == 2    \* hook promises pending at the same time
MaxVisits == 2      \* iterations of one parent walk on the same module

\* ------------------------------------------------------- the program on disk
Null == << >>

MainFilename == "main"      \* require.main.filename: the script that called watch()
LibFile == "lib"            \* lib/index.js, the module whose require() loads the entry
EntryFile == "entry"        \* the entry file: the path the watcher reports for
                            \* it and the key the loader caches it under
EntryNoExt == "entry-noext" \* the same path without its extension: no file
NodeModules == {"nm"}       \* the paths that contain 'node_modules'

\* The files below the watched directory.
Files == {"entry", "a", "b", "nm", "u"}

\* The paths the watcher reports events for: chokidar.watch (line 78) is given
\* no 'ignored' option and the targets default to [cwd], so the files below
\* node_modules are reported like any other.
Watched == Files

\* The require() calls each file makes when it runs, in order.
\* entry requires the user file a and a node_modules package; the package
\* loads the user file b.  u is required by nobody.
Requires(file) ==
  CASE file = "entry" -> <<"a", "nm">>
    [] file = "nm" -> <<"b">>
    [] OTHER -> << >>

\* Files whose content an event can turn into one that throws when loaded.
Breakable == {"entry", "b"}

\* What a hook does when called.  "none": it is absent (not a function);
\* "value": it returns a value that isPromise (lines 272-274) rejects;
\* "throw": it throws synchronously; "promise": it returns a Promise that
\* settles later, fulfilled or rejected.
HookKinds == {"none", "value", "throw", "promise"}

\* The Node releases the program runs on, by what they do differently here:
\* "v10" stands for the releases up to 11, "v14" for 12 to 14, "v20" for 15
\* and later.
NodeVersions == {"v10", "v14", "v20"}

\* Module._load, called by the require() of line 162: up to Node 11 it tests
\* the cache entry for truthiness, so a key set to null is loaded afresh;
\* from Node 12 on it tests `!== undefined` and then dereferences the null.
NullIsCached(n) == n # "v10"

\* A rejected promise that nobody handles (the promises of lines 213, 239 and
\* 263) ends the process with exit code 1 from Node 15 on; before, it is a
\* warning.
ExitsOnRejection(n) == n = "v20"

\* Module._resolveFilename, called by the require() of line 162: a path that
\* names no file is tried with the extensions of the loader.
ResolveFilename(request) == IF request = EntryNoExt THEN EntryFile ELSE request

\* module.id: the main module's id is '.', every other module's its filename.
ModuleId(file) == IF file = MainFilename THEN "." ELSE file

defaultEntry == [onBeforeRestart |-> "none", start |-> "none"]

\* ------------------------------------------------------------ require.cache
\* A module object is the sequence of module ids along its parent references,
\* itself first: Head is module.id, Tail is module.parent.  IsCached is the
\* program's own test of an entry, `require.cache[path] != null` (line 136).
CacheGet(c, k) == IF k \in DOMAIN c THEN c[k] ELSE Null
CacheSet(c, k, v) == [x \in (DOMAIN c) \cup {k} |-> IF x = k THEN v ELSE c[x]]
CacheDelete(c, k) == [x \in (DOMAIN c) \ {k} |-> c[x]]
IsCached(c, k) == CacheGet(c, k) # Null

\* Module._load and Module.prototype.require on Node release n.  thrower is
\* the file whose code threw, "loader" when Module._load itself threw the
\* TypeError on a null cache entry: then no file is run and the key stays.
RECURSIVE Require(_, _, _, _, _)
RECURSIVE RequireAll(_, _, _, _, _)
Require(c, file, parent, brk, n) ==
  IF IsCached(c, file) THEN [cache |-> c, ok |-> TRUE, thrower |-> "none"]
  ELSE IF NullIsCached(n) /\ file \in DOMAIN c
    THEN [cache |-> c, ok |-> FALSE, thrower |-> "loader"]
  ELSE IF file \in brk
    THEN [cache |-> CacheDelete(c, file), ok |-> FALSE, thrower |-> file]
    ELSE LET m == <<ModuleId(file)>> \o parent
             r == RequireAll(CacheSet(c, file, m), Requires(file), m, brk, n)
         IN IF r.ok THEN r
            ELSE [cache |-> CacheDelete(r.cache, file), ok |-> FALSE,
                  thrower |-> r.thrower]
RequireAll(c, files, parent, brk, n) ==
  IF files = << >> THEN [cache |-> c, ok |-> TRUE, thrower |-> "none"]
  ELSE LET r == Require(c, Head(files), parent, brk, n)
       IN IF r.ok THEN RequireAll(r.cache, Tail(files), parent, brk, n) ELSE r

\* The module object of lib/index.js, alive in the closure of require().
LibModule == <<ModuleId(LibFile), ModuleId(MainFilename)>>

\* hotReload, lines 255-260: one walk up the parent references.
RECURSIVE WalkParents(_, _)
WalkParents(c, currentCache) ==
  IF currentCache = Null THEN c
  ELSE WalkParents(CacheSet(c, Head(currentCache), Null), Tail(currentCache))

\* hotReload, lines 251-261: for (const key in changedFiles), insertion order.
RECURSIVE HotInvalidate(_, _)
HotInvalidate(c, keys) ==
  IF keys = << >> THEN c
  ELSE HotInvalidate(WalkParents(c, CacheGet(c, Head(keys))), Tail(keys))

\* fullReload, lines 206-211.
FullInvalidate(c) ==
  [k \in DOMAIN c |->
     IF k # MainFilename /\ k \notin NodeModules THEN Null ELSE c[k]]

\* obj[key] = true on an object used as an insertion-ordered key set.
AddKey(keys, k) ==
  IF \E i \in 1..Len(keys) : keys[i] = k THEN keys ELSE Append(keys, k)
HasKey(keys, k) == \E i \in 1..Len(keys) : keys[i] = k
KeySet(keys) == {keys[i] : i \in 1..Len(keys)}


\* ------------------------------------------------------------------- state
VARIABLES
  node,              \* the Node release the process runs on
  params,            \* the argument of watch(): the types of its fields
  entryFile,         \* lines 46 and 61: the path watch() resolved
  phase,             \* "call": watch() is called; "thrown": it threw;
                     \* "watching": it returned and the watcher exists;
                     \* "rejected": a promise was rejected unhandled and the
                     \* process ends once the microtask queue is empty;
                     \* "exited": the process has ended
  walk,              \* one parent walk of hotReload, iteration by iteration
  invoked,           \* the onBeforeRestart of the object entry refers to
                     \* has been called since that object was loaded
  cache,             \* require.cache
  broken,            \* disk: the files that throw when loaded
  crashed,           \* line 67
  changedFiles,      \* line 68
  entry,             \* line 69
  restarting,        \* line 70
  needRestart,       \* line 71
  changedFileQueue,  \* line 72
  ready,             \* the 'all' listener is registered (line 96)
  awaiting,          \* the async functions suspended at an await
  events,            \* watcher events delivered so far
  ev,                \* what the last handler run did (history)
  lastThrower,       \* the file that threw in the last load attempt (history)
  unhandled          \* changes to cached modules queued during a reload and
                     \* not covered by a reload started since (history)

vars == <<node, params, entryFile, phase, walk, invoked, cache, broken, crashed, changedFiles, entry, restarting,
          needRestart, changedFileQueue, ready, awaiting, events, ev,
          lastThrower, unhandled>>

NoLog ==
  [op |-> "none", path |-> "none", loads |-> 0, cycles |-> 0, full |-> FALSE,
   completions |-> 0, obrFailed |-> FALSE, startFailed |-> FALSE,
   loadOk |-> FALSE, loadFailed |-> FALSE, thrower |-> "none",
   queued |-> FALSE, before |-> << >>, after |-> << >>,
   obrCalled |-> FALSE, startCalled |-> FALSE, fresh |-> FALSE]

\* The closure variables of watch() as one record, with the log of this run.
Cur ==
  [entryFile |-> entryFile,
   cache |-> cache, crashed |-> crashed, changedFiles |-> changedFiles,
   entry |-> entry, restarting |-> restarting, needRestart |-> needRestart,
   changedFileQueue |-> changedFileQueue, awaiting |-> awaiting,
   k |-> "run", log |-> NoLog]

\* What a load depends on: the files that throw, the hooks the entry module
\* exports when it runs, and the Node release.
Disk(ex) == [broken |-> broken, exports |-> ex, node |-> node]

\* start(), lines 153-195.  who is "init" for the call of watcherOnReady and
\* "reload" for the call of reloadEntry.  k = "returned": start() ran to its
\* end; k = "await": it is suspended on the promise of listeners.start.
Start(s, d, who) ==
  LET filename == ResolveFilename(s.entryFile)
      r == Require(s.cache, filename, LibModule, d.broken, d.node)
      loaded == IF IsCached(s.cache, filename) THEN s.entry ELSE d.exports
      s1 == [s EXCEPT !.cache = r.cache, !.log.loads = @ + 1,
                      !.log.thrower = r.thrower]
  IN IF ~r.ok
       THEN [s1 EXCEPT !.crashed = TRUE, !.log.loadFailed = TRUE, !.k = "returned"]
       ELSE LET s2 == [s1 EXCEPT !.entry = loaded, !.log.loadOk = TRUE,
                                 !.log.fresh = ~IsCached(s.cache, filename)]
            IN CASE loaded.start = "throw" ->
                      [s2 EXCEPT !.crashed = TRUE, !.log.startFailed = TRUE,
                                 !.log.startCalled = TRUE, !.k = "returned"]
                 [] loaded.start = "promise" ->
                      [s2 EXCEPT !.awaiting[who] = @ + 1,
                                 !.log.startCalled = TRUE, !.k = "await"]
                 [] loaded.start = "value" ->
                      [s2 EXCEPT !.log.startCalled = TRUE, !.k = "returned"]
                 [] OTHER -> [s2 EXCEPT !.k = "returned"]

\* reloadEntry, line 230, up to its suspension: it calls start() and awaits
\* the promise, also when start() ran to its end; lines 230-240 then wait in
\* the microtask queue (awaiting.tail).
ReloadEntryStart(s, d) ==
  LET r == Start(s, d, "reload")
  IN IF r.k = "returned"
       THEN [r EXCEPT !.awaiting.tail = @ + 1, !.k = "await"]
       ELSE r

\* A reloadEntry that calls onBeforeRestart and does not await its promise.
ReloadEntryNoAwait(s, d) ==
  LET s1 == [s EXCEPT !.cache = CacheSet(s.cache, s.entryFile, Null)]
      s2 == [s1 EXCEPT !.log.after = s1.cache]
  IN IF s.entry.onBeforeRestart = "throw"
       THEN [s2 EXCEPT !.log.obrCalled = TRUE, !.log.obrFailed = TRUE,
                       !.k = "threw"]
       ELSE ReloadEntryStart(
              [s2 EXCEPT !.log.obrCalled = s.entry.onBeforeRestart # "none"], d)

\* reloadEntry, lines 219-230.  k = "threw": onBeforeRestart threw and the
\* promise of reloadEntry is rejected; k = "await": suspended at line 226.
ReloadEntry(s, d) ==
  LET s1 == [s EXCEPT !.cache = CacheSet(s.cache, s.entryFile, Null)]
      s2 == [s1 EXCEPT !.log.after = s1.cache]
  IN CASE s.entry.onBeforeRestart = "throw" ->
            [s2 EXCEPT !.log.obrCalled = TRUE, !.log.obrFailed = TRUE,
                       !.k = "threw"]
       [] s.entry.onBeforeRestart = "promise" ->
            [s2 EXCEPT !.log.obrCalled = TRUE, !.awaiting.obr = @ + 1,
                       !.k = "await"]
       [] s.entry.onBeforeRestart = "value" ->
            ReloadEntryStart([s2 EXCEPT !.log.obrCalled = TRUE], d)
       [] OTHER -> ReloadEntryStart(s2, d)

\* hotReload, lines 246-264.
HotReload(s, d) ==
  ReloadEntry([s EXCEPT !.cache = HotInvalidate(s.cache, s.changedFiles),
                        !.log.before = s.cache,
                        !.log.cycles = @ + 1], d)

\* The value start() resolves to: it has no return statement.
StartResult == "undefined"

\* reloadEntry, lines 230-240, resumed after the promise of start() is
\* fulfilled; the hotReload() of line 239 runs to its own suspension.
ReloadEntryTail(s, d) ==
  LET s1 == IF StartResult = "true"
              THEN [s EXCEPT !.changedFiles = s.changedFileQueue,
                             !.changedFileQueue = << >>]
              ELSE s
      s2 == [s1 EXCEPT !.restarting = FALSE, !.log.completions = @ + 1]
  IN IF s2.needRestart
       THEN HotReload([s2 EXCEPT !.needRestart = FALSE], d)
       ELSE [s2 EXCEPT !.k = "done"]

\* fullReload, lines 200-214.
FullReload(s, d) ==
  ReloadEntry([s EXCEPT !.restarting = TRUE,
                        !.cache = FullInvalidate(s.cache),
                        !.log.before = s.cache,
                        !.log.full = TRUE,
                        !.log.cycles = @ + 1], d)

\* watcherOnAll without the test of the cache entry on line 136.
WatcherOnAllNoFilter(s, d, watchedPath) ==
  IF watchedPath = s.entryFile
    THEN FullReload(s, d)
    ELSE IF ~s.restarting
      THEN LET r == HotReload(
                      [s EXCEPT !.changedFiles = AddKey(@, watchedPath)], d)
           IN [r EXCEPT !.restarting = TRUE]
      ELSE [s EXCEPT !.changedFileQueue = AddKey(@, watchedPath),
                     !.needRestart = FALSE,
                     !.restarting = TRUE,
                     !.log.queued = IsCached(s.cache, watchedPath),
                     !.k = "queued"]

\* watcherOnAll without the test of changedFiles on line 137.
WatcherOnAllRetryAny(s, d, watchedPath) ==
  IF watchedPath = s.entryFile
    THEN FullReload(s, d)
    ELSE IF CacheGet(s.cache, watchedPath) = Null /\ ~s.crashed
      THEN [s EXCEPT !.k = "ignored"]
      ELSE IF ~s.restarting
        THEN LET r == HotReload(
                        [s EXCEPT !.changedFiles = AddKey(@, watchedPath)], d)
             IN [r EXCEPT !.restarting = TRUE]
        ELSE [s EXCEPT !.changedFileQueue = AddKey(@, watchedPath),
                       !.needRestart = FALSE,
                       !.restarting = TRUE,
                       !.log.queued = IsCached(s.cache, watchedPath),
                       !.k = "queued"]

\* watcherOnAll, lines 113-148.
WatcherOnAll(s, d, watchedPath) ==
  IF watchedPath = s.entryFile
    THEN FullReload(s, d)
    ELSE IF CacheGet(s.cache, watchedPath) = Null
            /\ (~s.crashed \/ ~HasKey(s.changedFiles, watchedPath))
      THEN [s EXCEPT !.k = "ignored"]
      ELSE IF ~s.restarting
        THEN LET r == HotReload(
                        [s EXCEPT !.changedFiles = AddKey(@, watchedPath)], d)
             IN [r EXCEPT !.restarting = TRUE]
        ELSE [s EXCEPT !.changedFileQueue = AddKey(@, watchedPath),
                       !.needRestart = FALSE,
                       !.restarting = TRUE,
                       !.log.queued = IsCached(s.cache, watchedPath),
                       !.k = "queued"]


\* --------------------------------------------------------------- behaviour
ExportChoices == [onBeforeRestart : HookKinds, start : HookKinds]

NoAwaiting == [obr |-> 0, reload |-> 0, init |-> 0, tail |-> 0]
Pending(a) == a.obr + a.reload + a.init + a.tail

\* The files the program requires, and for each the file that requires it
\* (lib/index.js requires the entry at line 162).
Required == {f \in Files : f = EntryFile \/ \E g \in Files : HasKey(Requires(g), f)}
RequiredBy(f) ==
  IF f = EntryFile THEN LibFile
  ELSE CHOOSE g \in Files : HasKey(Requires(g), f)

\* The module object a load creates for a file: its id, then its parent's.
RECURSIVE LoadedModule(_)
LoadedModule(f) ==
  IF f = LibFile THEN LibModule
  ELSE <<ModuleId(f)>> \o LoadedModule(RequiredBy(f))

\* The changes a run's reload cycle covers: the files whose whole parent
\* chain is absent from the cache after the invalidation step (lines 206-211
\* or 251-261, and 220), so that the load that follows runs them again.  A
\* file below a module that stays cached is not covered: its parent is
\* returned from the cache and never requires it again.
Covered(t) ==
  IF t.log.cycles = 0 THEN {}
  ELSE {f \in Required :
          \A k \in KeySet(LoadedModule(f)) : CacheGet(t.log.after, k) = Null}

\* The exports a handler run can observe: when its loads of the entry all
\* fail, or it loads nothing, the exports of the entry file are never read.
ExportsRead(t) == IF t.log.loadOk THEN ExportChoices ELSE {defaultEntry}

\* The handlers run while the process is alive.
Running == phase \in {"watching", "rejected"}

\* Stores the closure variables a handler run leaves behind.  k = "threw":
\* the promise of reloadEntry, and with it that of fullReload, was rejected,
\* and no caller handles it.
Commit(t, op, path) ==
  /\ Pending(t.awaiting) <= MaxAwaiting
  /\ UNCHANGED <<node, params, entryFile, walk>>
  /\ phase' = IF t.k = "threw" /\ ExitsOnRejection(node) THEN "rejected"
                                                          ELSE phase
  /\ invoked' = IF t.log.fresh THEN FALSE ELSE invoked \/ t.log.obrCalled
  /\ cache' = t.cache
  /\ crashed' = t.crashed
  /\ changedFiles' = t.changedFiles
  /\ entry' = t.entry
  /\ restarting' = t.restarting
  /\ needRestart' = t.needRestart
  /\ changedFileQueue' = t.changedFileQueue
  /\ awaiting' = t.awaiting
  /\ ev' = [t.log EXCEPT !.op = op, !.path = path]
  /\ lastThrower' = IF t.log.loads > 0 THEN t.log.thrower ELSE lastThrower
  /\ unhandled' = (unhandled \ Covered(t))
                    \cup (IF t.log.queued THEN {path} ELSE {})

\* watch(), lines 23-76, on the types of its parameters and what entryFile
\* resolves to on disk.  entryFile: "string" or "other"; targets: "absent"
\* (null or undefined), "string", "array" (of strings), "arrayBad" (an array
\* with an element that is not a string) or "other"; entryStat: "file",
\* "dirMain" (a directory whose package.json has a string main that names the
\* entry file with its extension), "dirMainNoExt" (the same, main written
\* without the extension), "dirNoMain" (a directory whose package.json has no
\* string main) or "missing" (statSync throws).
ParamChoices ==
  [entryFile : {"string", "other"},
   targets : {"absent", "string", "array", "arrayBad", "other"},
   entryStat : {"file", "dirMain", "dirMainNoExt", "dirNoMain", "missing"}]

\* A watch() that forgets the Array.isArray test of line 42.
WatchThrowsNoArrayTest(p) ==
  \/ p.entryFile # "string"
  \/ p.entryStat \in {"missing", "dirNoMain"}
  \/ p.targets = "arrayBad"

\* Lines 23-25, 38-44, 47-65 and 74-76: whether watch() throws.  The
\* path.resolve of line 75 throws a TypeError on an element of targets that
\* is not a string, after lines 67-72 and before chokidar.watch of line 78.
WatchThrows(p) ==
  \/ p.entryFile # "string"
  \/ p.targets \notin {"absent", "string", "array", "arrayBad"}
  \/ p.entryStat = "missing"
  \/ p.entryStat = "dirNoMain"
  \/ p.targets = "arrayBad"

\* Lines 46 and 61: the path the closure variable entryFile holds when
\* watch() returns.  path.resolve adds no extension: a main written without
\* one gives a path that is neither the loader's cache key nor the path the
\* watcher reports.
ResolvedEntry(p) ==
  IF p.entryStat = "dirMainNoExt" THEN EntryNoExt ELSE EntryFile

\* The values entryFile can hold in a session.
EntryPaths == {ResolvedEntry(p) : p \in {q \in ParamChoices : ~WatchThrows(q)}}

\* Lines 38-41 and 74-76: targets has become an array of resolved paths; the
\* parameters have been read and what the entry resolved to is in entryFile.
Normalized == [entryFile |-> "string", targets |-> "array", entryStat |-> "read"]

\* No parent walk is observed.
NoWalk == [parent |-> << >>, cur |-> "none", visits |-> << >>, nulled |-> {}]

\* The closure variables as lines 67-72 initialise them.
InitClosure ==
  /\ node \in NodeVersions
  /\ cache = (MainFilename :> <<ModuleId(MainFilename)>>) @@ (LibFile :> LibModule)
  /\ broken \in SUBSET Breakable
  /\ crashed = FALSE
  /\ changedFiles = << >>
  /\ entry = defaultEntry
  /\ restarting = FALSE
  /\ needRestart = FALSE
  /\ changedFileQueue = << >>
  /\ ready = FALSE
  /\ awaiting = NoAwaiting
  /\ events = 0
  /\ ev = NoLog
  /\ lastThrower = "none"
  /\ unhandled = {}
  /\ invoked = FALSE

\* watch(), lines 67-84: the state when watch() returns.
Init ==
  /\ params = Normalized
  /\ entryFile \in EntryPaths
  /\ phase = "watching"
  /\ walk = NoWalk
  /\ InitClosure

\* The state in which watch() is called.
InitWatch ==
  /\ params \in ParamChoices
  /\ entryFile = "none"
  /\ phase = "call"
  /\ walk = NoWalk
  /\ InitClosure

\* watch(), lines 22-88: throws, or creates the watcher and returns.
Watch ==
  /\ phase = "call"
  /\ IF WatchThrows(params)
       THEN phase' = "thrown" /\ params' = params /\ entryFile' = entryFile
       ELSE /\ phase' = "watching"
            /\ params' = Normalized
            /\ entryFile' = ResolvedEntry(params)
  /\ UNCHANGED <<node, walk, invoked, cache, broken, crashed, changedFiles, entry, restarting,
                 needRestart, changedFileQueue, ready, awaiting, events, ev,
                 lastThrower, unhandled>>

\* watcherOnReady, lines 93-97; chokidar emits 'ready' on the watcher that
\* line 78 created.
WatcherOnReady ==
  /\ Running
  /\ ~ready
  /\ ready' = TRUE
  /\ \E ex \in ExportsRead(Start(Cur, Disk(defaultEntry), "init")) :
       Commit(Start(Cur, Disk(ex), "init"), "ready", "none")
  /\ UNCHANGED <<broken, events>>

\* A file is written on disk: it starts, or stops, to throw when loaded.
\* The watcher reports it later (awaitWriteFinish, line 79), or, for a file
\* outside the targets, never; a load that runs meanwhile reads the new
\* content.
FileChanged ==
  /\ Running
  /\ \E f \in Breakable :
       broken' = IF f \in broken THEN broken \ {f} ELSE broken \cup {f}
  /\ ev' = [NoLog EXCEPT !.op = "write"]
  /\ UNCHANGED <<node, params, entryFile, phase, walk, invoked, cache, crashed,
                 changedFiles, entry, restarting, needRestart,
                 changedFileQueue, ready, awaiting, events, lastThrower,
                 unhandled>>

\* chokidar delivers an event on a watched path to watcherOnAll.
WatcherEvent ==
  /\ Running
  /\ ready
  /\ events < MaxEvents
  /\ \E watchedPath \in Watched :
       \E ex \in ExportsRead(WatcherOnAll(Cur, Disk(defaultEntry), watchedPath)) :
         Commit(WatcherOnAll(Cur, Disk(ex), watchedPath), "event", watchedPath)
  /\ events' = events + 1
  /\ UNCHANGED <<broken, ready>>

\* The promise awaited at line 226 settles.  Fulfilled: reloadEntry goes on
\* with line 230.  Rejected: the await throws and reloadEntry ends rejected.
OnBeforeRestartSettled ==
  /\ Running
  /\ awaiting.obr > 0
  /\ \E fulfilled \in BOOLEAN :
       LET s == [Cur EXCEPT !.awaiting.obr = @ - 1]
           run(ex) == ReloadEntryStart(s, Disk(ex))
       IN IF fulfilled
            THEN \E ex \in ExportsRead(run(defaultEntry)) :
                   Commit(run(ex), "obrSettled", "none")
            ELSE Commit([s EXCEPT !.log.obrFailed = TRUE, !.k = "threw"],
                        "obrSettled", "none")
  /\ UNCHANGED <<broken, ready, events>>

\* The promise awaited at line 176 by the start() of a reload settles; a
\* rejection is caught and logged (lines 177-179); start() runs to its end
\* and the reloadEntry that awaits it waits in the microtask queue.
StartHookSettled ==
  /\ Running
  /\ awaiting.reload > 0
  /\ \E fulfilled \in BOOLEAN :
       Commit([Cur EXCEPT !.awaiting.reload = @ - 1,
                          !.awaiting.tail = @ + 1,
                          !.log.startFailed = ~fulfilled,
                          !.k = "await"], "startSettled", "none")
  /\ UNCHANGED <<broken, ready, events>>

\* A reloadEntry suspended at line 230 is resumed from the microtask queue.
ReloadEntryResumed ==
  /\ Running
  /\ awaiting.tail > 0
  /\ LET s == [Cur EXCEPT !.awaiting.tail = @ - 1]
     IN \E ex \in ExportsRead(ReloadEntryTail(s, Disk(defaultEntry))) :
          Commit(ReloadEntryTail(s, Disk(ex)), "resumed", "none")
  /\ UNCHANGED <<broken, ready, events>>

\* The process ends after an unhandled rejection.
ProcessExit ==
  /\ phase = "rejected"
  /\ phase' = "exited"
  /\ ev' = [NoLog EXCEPT !.op = "exit"]
  /\ UNCHANGED <<node, params, entryFile, walk, invoked, cache, broken, crashed,
                 changedFiles, entry, restarting, needRestart,
                 changedFileQueue, ready, awaiting, events, lastThrower,
                 unhandled>>

\* The same promise for the start() called by watcherOnReady: nothing follows.
InitialStartHookSettled ==
  /\ Running
  /\ awaiting.init > 0
  /\ \E fulfilled \in BOOLEAN :
       Commit([Cur EXCEPT !.awaiting.init = @ - 1,
                          !.log.startFailed = ~fulfilled,
                          !.k = "done"], "initSettled", "none")
  /\ UNCHANGED <<broken, ready, events>>

Next ==
  \/ WatcherOnReady
  \/ FileChanged
  \/ WatcherEvent
  \/ OnBeforeRestartSettled
  \/ StartHookSettled
  \/ InitialStartHookSettled
  \/ ReloadEntryResumed
  \/ ProcessExit

Spec == Init /\ [][Next]_vars

\* The loop of hotReload, lines 255-260, on module objects whose parent
\* references are an arbitrary graph: module.parent is a writable property,
\* which the loaded program can point at any module.  parent[m] is the module
\* m.parent refers to, "none" for null; cur is currentCache.
WalkIds == {"x", "y", "z"}

InitWalk ==
  /\ params = Normalized
  /\ entryFile \in EntryPaths
  /\ phase = "watching"
  /\ \E p \in [WalkIds -> WalkIds \cup {"none"}], c \in WalkIds :
       walk = [parent |-> p, cur |-> c,
               visits |-> [m \in WalkIds |-> 0], nulled |-> {}]
  /\ InitClosure

\* One iteration of while (currentCache != null), lines 257-260.
WalkStep ==
  /\ walk.cur # "none"
  /\ walk.visits[walk.cur] < MaxVisits
  /\ walk' = [walk EXCEPT !.visits[walk.cur] = @ + 1,
                          !.nulled = @ \cup {walk.cur},
                          !.cur = walk.parent[walk.cur]]
  /\ UNCHANGED <<node, params, entryFile, phase, invoked, cache, broken, crashed,
                 changedFiles, entry, restarting, needRestart, changedFileQueue, ready, awaiting,
                 events, ev, lastThrower, unhandled>>

SpecWalk == InitWalk /\ [][WalkStep]_vars

\* The session from the call of watch() on.
NextWatch == Watch \/ Next
SpecWatch == InitWatch /\ [][NextWatch]_vars

TypeOK ==
  /\ crashed \in BOOLEAN /\ restarting \in BOOLEAN /\ needRestart \in BOOLEAN
  /\ entry \in ExportChoices
  /\ entryFile \in EntryPaths \cup {"none"}
  /\ KeySet(changedFiles) \subseteq Watched
  /\ KeySet(changedFileQueue) \subseteq Watched
  /\ Pending(awaiting) <= MaxAwaiting


\* ------------------------------------------------------------------ claims
\* Reload cycles in flight: the reloadEntry calls suspended at line 226, at
\* line 230 or, inside start(), at line 176.
InFlight == awaiting.obr + awaiting.reload + awaiting.tail

\* The cache entries the last invalidation step removed.
Removed(log) ==
  {k \in DOMAIN log.before : log.before[k] # Null /\ CacheGet(log.after, k) = Null}

\* C1: at most one reload cycle is in flight at any instant.
C1_SingleFlight == InFlight <= 1

\* C2: when a reload cycle completes after changes to cached modules were
\* accepted during it, exactly one further reload cycle starts.
C2_OneFollowUp ==
  [][(ev'.op = "resumed" /\ ev'.completions > 0 /\ unhandled # {})
       => ev'.cycles = 1]_vars

\* C3: once every hook has settled and the reload has completed, no change
\* accepted during a reload is left without a reload cycle that started after
\* it and covers it.
C3_NoChangeLost == (Pending(awaiting) = 0 /\ ~restarting) => unhandled = {}

\* C4: a partial reload triggered by a cached X removes exactly the cached
\* entries of X's parent chain outside node_modules, and nothing else.
C4_ExactClosure ==
  [][(ev'.op = "event" /\ ev'.cycles > 0 /\ ~ev'.full
        /\ IsCached(cache, ev'.path))
       => Removed(ev') = {k \in KeySet(cache[ev'.path]) \ NodeModules :
                            IsCached(cache, k)}]_vars

\* C5: a cached node_modules entry is never removed from the cache.
C5_ImmutableKept ==
  [][\A k \in NodeModules : IsCached(cache, k) => IsCached(cache', k)]_vars

\* C6: after a failed load, with no reload running, a change to the file that
\* threw starts a new load attempt of the entry.
C6_RetryAfterCrash ==
  [][(ev'.op = "event" /\ crashed /\ lastThrower # "none"
        /\ ev'.path = lastThrower /\ ~restarting /\ Pending(awaiting) = 0)
       => ev'.loads > 0]_vars

\* C7: restarting is true whenever a reload cycle is in flight.
C7_RestartingWhileInFlight == (InFlight > 0) => restarting

\* C8: when onBeforeRestart throws or its promise rejects, the process lives
\* on and the cycle still loads the entry and goes on to its completion.
C8_HookErrorIsolated ==
  ev.obrFailed => /\ phase = "watching"
                  /\ ev.loads > 0
                  /\ (awaiting.tail > 0 \/ awaiting.reload > 0)

\* C9: a failure of listeners.start after a successful load leaves crashed as
\* it was.
C9_StartHookNoCrash == [][ev'.startFailed => crashed' = crashed]_vars

\* C10: after the invalidation step of a full reload every cache entry
\* outside node_modules is absent.
C10_AllCleared ==
  ev.full => \A k \in DOMAIN ev.after : k \notin NodeModules => ev.after[k] = Null


\* The keys of require.cache that hold a module.
CachedKeys(c) == {k \in DOMAIN c : c[k] # Null}

\* The full reload of the state a completed full reload leaves behind, with
\* no file changed and the entry exporting the same hooks.
SecondFullReload ==
  FullReload([entryFile |-> entryFile, cache |-> cache', crashed |-> crashed',
              changedFiles |-> changedFiles', entry |-> entry',
              restarting |-> FALSE, needRestart |-> needRestart',
              changedFileQueue |-> changedFileQueue', awaiting |-> NoAwaiting,
              k |-> "run", log |-> NoLog],
             [broken |-> broken', exports |-> entry', node |-> node])

\* C11: two full reloads run to completion one after the other, the second
\* with no file changed and the entry exporting the same hooks, leave the same
\* set of cache entries as the first alone.  The first is a step that has
\* loaded the entry and has only line 230 left to resume, which does not
\* touch the cache.
C11_FullReloadIdempotent ==
  [][(/\ ev'.op = "event" /\ ev'.full /\ ev'.loadOk
      /\ Pending(awaiting) = 0 /\ ~restarting
      /\ awaiting' = [NoAwaiting EXCEPT !.tail = 1]
      /\ entry'.onBeforeRestart \in {"none", "value"}
      /\ entry'.start \in {"none", "value"})
       => CachedKeys(SecondFullReload.cache) = CachedKeys(cache')]_vars


\* C12: the first load calls no onBeforeRestart; a reload cycle calls the
\* hook exactly when the held entry has one; a cycle whose hook returns a
\* promise suspends on it without loading, one whose hook throws loads
\* nothing, and the entry is loaded again only by a cycle whose hook is absent
\* or returned no promise, or in the step where the promise of its hook is
\* fulfilled.
C12_HookBeforeLoad ==
  [][/\ ev'.op = "ready"
          => (awaiting'.obr = 0 /\ ~ev'.obrFailed /\ ~ev'.obrCalled)
     /\ (ev'.op = "event" /\ ev'.cycles > 0)
          => (ev'.obrCalled <=> entry.onBeforeRestart # "none")
     /\ (ev'.op = "event" /\ ev'.cycles > 0 /\ entry.onBeforeRestart = "promise")
          => (awaiting'.obr = awaiting.obr + 1 /\ ev'.loads = 0)
     /\ (ev'.op = "event" /\ ev'.cycles > 0 /\ entry.onBeforeRestart = "throw")
          => (ev'.obrFailed /\ ev'.loads = 0)
     /\ (ev'.loads > 0 /\ ev'.op # "ready")
          => \/ ev'.op = "obrSettled" /\ ~ev'.obrFailed /\ awaiting'.obr = awaiting.obr - 1
             \/ /\ ev'.op = "event" /\ ev'.cycles > 0
                /\ entry.onBeforeRestart \in {"none", "value"}]_vars

\* The promise of onBeforeRestart was fulfilled and the entry, whose hook
\* returns a promise, was then loaded again.
C12_Witness ==
  /\ ev.op = "obrSettled" /\ ev.loads = 1 /\ ev.loadOk /\ ev.fresh
  /\ entry.onBeforeRestart = "promise"


\* The configurations C13 names.
BadConfig(p) ==
  \/ p.entryFile # "string"
  \/ p.targets = "other"
  \/ p.entryStat = "dirNoMain"

\* C13: watch() called with such a configuration throws; after the throw no
\* watcher exists, the closure variables are untouched, the entry was never
\* loaded and no event was processed.
C13_ConfigErrorFatal ==
  [][/\ (phase = "call" /\ BadConfig(params)) => phase' = "thrown"
     /\ (phase = "thrown" \/ phase' = "thrown")
          => /\ ~ready' /\ events' = 0 /\ ev' = NoLog
             /\ cache' = (MainFilename :> <<ModuleId(MainFilename)>>)
                           @@ (LibFile :> LibModule)
             /\ entry' = defaultEntry /\ ~crashed' /\ ~restarting'
             /\ changedFiles' = << >> /\ changedFileQueue' = << >>
             /\ awaiting' = NoAwaiting]_vars

\* watch() threw on a targets parameter that is neither absent, a string nor
\* an array, with a valid entry file.
C13_Witness ==
  /\ phase = "thrown" /\ params.targets = "other"
  /\ params.entryFile = "string" /\ params.entryStat = "file"


\* C14: one parent walk visits each module at most once, also when the parent
\* references form a cycle.
C14_VisitedOnce == \A m \in DOMAIN walk.visits : walk.visits[m] <= 1


\* C15: when a reload cycle completes, loaded or crashed, the pending change
\* set becomes the active one, the pending set is empty and restarting is
\* false.
C15_QueueSwapped ==
  [][ev'.completions > 0
       => /\ KeySet(changedFiles') = KeySet(changedFileQueue)
          /\ changedFileQueue' = << >>
          /\ ~restarting']_vars


\* What a discarded watcher event leaves alone.
Discarded ==
  /\ ev'.cycles = 0 /\ ev'.loads = 0
  /\ UNCHANGED <<cache, changedFiles, changedFileQueue, restarting,
                 needRestart, crashed, awaiting, entry>>

\* C16: a watcher event on a path that is not the entry file and has no cache
\* entry, arriving while the session is not crashed, starts no reload and
\* leaves the cache, both change sets and the three flags unchanged.
C16_UncachedDiscarded ==
  [][(/\ ev'.op = "event" /\ ev'.path # EntryFile
      /\ ~IsCached(cache, ev'.path) /\ ~crashed)
       => Discarded]_vars

\* The entry is loaded, and an event on a file the program never required
\* has been handled while not crashed.
C16_Witness ==
  /\ ev.op = "event" /\ ev.path = "u" /\ ~crashed
  /\ ~IsCached(cache, "u") /\ IsCached(cache, EntryFile)
  /\ ev.cycles = 0

\* C17: while crashed, an event on an uncached path other than the entry file
\* takes the partial reload path exactly when the path is in the active
\* change set: then it starts a hot reload, or is queued when a cycle is in
\* flight; any other uncached path is discarded.
C17_CrashedRetry ==
  [][(/\ ev'.op = "event" /\ ev'.path # EntryFile
      /\ ~IsCached(cache, ev'.path) /\ crashed)
       => IF HasKey(changedFiles, ev'.path)
            THEN IF restarting
                   THEN /\ ev'.cycles = 0
                        /\ HasKey(changedFileQueue', ev'.path)
                   ELSE ev'.cycles > 0 /\ ~ev'.full
            ELSE Discarded]_vars

\* A crashed session has retried after an event on the uncached file whose
\* change it had recorded.
C17_Witness ==
  /\ ev.op = "event" /\ ev.path = "b" /\ ev.cycles = 1 /\ ~ev.full
  /\ ~IsCached(ev.before, "b") /\ HasKey(changedFiles, "b")
  /\ crashed


\* C18: between the call of start() in the ready handler and the settling of
\* the initial entry's start hook, no watcher event starts a reload cycle or
\* loads the entry again.
C18_NoReloadDuringInitialLoad ==
  [][(awaiting.init > 0 /\ ev'.op = "event")
       => (ev'.cycles = 0 /\ ev'.loads = 0)]_vars


\* C19: the onBeforeRestart hook of one loaded entry object is called at most
\* once, also when the reload after the call crashes and a later reload runs.
C19_HookOncePerInstance ==
  [][ev'.obrCalled => ~invoked]_vars

====
